---------------------------- MODULE Spec2Model ----------------------------
(***************************************************************************)
(* kuyruk client core: Task.__call__ / Task.apply / Task.send_to_queue /   *)
(* Task.send_signal / TaskResult / time_limit (kuyruk/task.py) and         *)
(* Result._process_message / Result.wait (kuyruk/result.py).               *)
(*                                                                         *)
(* Python values are modelled as follows: an optional value is a sequence  *)
(* of length 0 (None) or 1 (<<x>>); a dict is a function on its keys; an   *)
(* exception in flight is a record [type, isException, origin].            *)
(***************************************************************************)
EXTENDS Integers, Sequences, FiniteSets, TLC

(* ----------------------------- bounds ---------------------------------- *)
MaxRetry == 1
MaxVal == 1
MaxRunTime == 1
MaxTimeout == 2
MaxTime == 4
MaxDepth == 2
MaxRegions == 4

(* --------------------------- python values ----------------------------- *)
None == <<>>
Some(x) == <<x>>

\* Python truth value of an optional string (None and "" are false).
TruthyStr(v) == v # None /\ v[1] # ""

\* Python truth value of an optional integer (None and 0 are false).
TruthyInt(v) == v # None /\ v[1] # 0

\* Python's `a or b` on optional integers.
Or(a, b) == IF TruthyInt(a) THEN a ELSE b

\* dict.pop(key, None)
Pop(d, key) == IF key \in DOMAIN d THEN Some(d[key]) ELSE None
Without(d, keys) == [k \in (DOMAIN d) \ keys |-> d[k]]

NoExc == [type |-> "", isException |-> FALSE, origin |-> ""]
Exc(t, o) == [type |-> t, isException |-> TRUE, origin |-> o]
\* An exception that does not derive from Exception (SystemExit,
\* KeyboardInterrupt): `except Exception` does not catch it.
BaseExc(t, o) == [type |-> t, isException |-> FALSE, origin |-> o]

\* kuyruk.exceptions.Timeout, raised by time_limit's signal handler.
Timeout == Exc("Timeout", "alarm")

(* ------------------------------ inputs --------------------------------- *)
Hosts == {"", "alpha"}
QueueNames == {"kuyruk"}
Classes == {"Cat", "Kitten"}
Hostname == "localhost"

\* Positional arguments of an invocation: nothing, an object with an id
\* field, or a plain value without one.
ObjWithId == [kind |-> "object", id |-> "obj-id"]
Plain == [kind |-> "plain", id |-> ""]
ArgsSet == {<<>>, <<ObjWithId>>, <<Plain>>}

\* Keyword arguments: any subset of the two routing keys.
HostKwargs == {<<>>} \cup {[k \in {"kuyruk_host"} |-> h] : h \in Hosts}
LocalKwargs == {<<>>} \cup {[k \in {"kuyruk_local"} |-> b] : b \in BOOLEAN}
KwargsSet == {h @@ l : h \in HostKwargs, l \in LocalKwargs}

\* The invocations tried: every routing combination on an object argument,
\* and every kind of positional arguments without routing keys.
CallInputs ==
    {<<a, kw>> : a \in {<<ObjWithId>>}, kw \in KwargsSet}
        \cup {<<a, <<>>>> : a \in ArgsSet}

BodyValues == {None} \cup {Some(n) : n \in 1..MaxVal}
BodyErrors == {Exc("BodyError", "body"), BaseExc("SystemExit", "body")}

\* Task and configuration pairs tried.  A queued task is declared with its
\* routing options (local, retry); an eagerly run one with its execution
\* options (eager or the global EAGER switch, max_run_time or the global
\* MAX_TASK_RUN_TIME); every other option keeps Task.__init__'s default.
QueuedTasks ==
    [queue : QueueNames, local : BOOLEAN, eager : {FALSE},
     retry : 0..MaxRetry, max_run_time : {None}, cls : {None}]
EagerSwitches == {<<TRUE, FALSE>>, <<FALSE, TRUE>>, <<TRUE, TRUE>>}
RunTimes ==
    {<<None, None>>, <<Some(0), Some(MaxRunTime)>>, <<Some(MaxRunTime), None>>}
Configurations ==
    {<<t, [EAGER |-> FALSE, MAX_TASK_RUN_TIME |-> None]>> : t \in QueuedTasks}
        \cup {<<[queue |-> "kuyruk", local |-> FALSE, eager |-> e[1],
                 retry |-> 0, max_run_time |-> r[1], cls |-> None],
                [EAGER |-> e[2], MAX_TASK_RUN_TIME |-> r[2]]>> :
                  e \in EagerSwitches, r \in RunTimes}

VARIABLES
    task,          \* the Task object's fields
    config,        \* kuyruk.config: EAGER, MAX_TASK_RUN_TIME
    pc,            \* position of the invocation in Task.__call__ / apply
    args, kwargs,  \* the invocation's arguments
    bidx,          \* senders already notified in the broadcast under way
    exc,           \* exception in flight
    return_value,  \* apply's local return_value
    task_result,   \* the TaskResult's instance dict
    alarm,         \* a SIGALRM is pending
    limit,         \* apply's local limit
    host, local,   \* the routing overrides popped by Task.__call__
    queue, local_, \* send_to_queue's locals
    channel,       \* channels currently held
    desc,          \* the descriptor built by get_task_description
    sent,          \* descriptors delivered to the transport
    next_id,       \* source of uuid1().hex
    trace,         \* what the current invocation did, in order
    read,          \* the last access to the returned TaskResult
    r_dict,        \* the Result object's instance dict (result, exception)
    w_pc,          \* position of Result.wait
    w_timeout,     \* wait's timeout argument
    start,         \* wait's local start
    now,           \* time.time()
    w_exc,         \* the exception wait ended with
    w_value,       \* the value wait returned
    reply,         \* the last reply handed to _process_message
    reply_time,    \* when that reply was handed over
    recv,          \* how the last drain_events call ended
    name_first,    \* what the first read of task.name returned
    name_last,     \* what the latest read of task.name returned
    stack,         \* the Task.apply frames under way, innermost last
    sigalrm,       \* the time_limit region whose alarm is pending, or 0
    entered,       \* the time_limit region entered most recently, or 0
    regions,       \* time_limit regions entered so far
    tl_step        \* the latest step of a time_limit region

wvars == <<r_dict, w_pc, w_timeout, start, now, w_exc, w_value, reply,
           reply_time, recv>>

cvars == <<task, config, pc, args, kwargs, bidx, exc, return_value,
          task_result, alarm, limit, host, local, queue, local_,
          channel, desc, sent, next_id, trace, read>>

nvars == <<name_first, name_last>>

tvars == <<stack, sigalrm, entered, regions, tl_step>>

xvars == <<nvars, tvars>>

vars == <<cvars, wvars, xvars>>

(* ------------------------------ helpers -------------------------------- *)
\* Entries of the trace.
Sig(signal, sender, extra, raised) ==
    [op |-> "signal", name |-> signal, sender |-> sender, extra |-> extra,
     raised |-> raised]
Op(o) == [op |-> o, name |-> "", sender |-> "", extra |-> None,
          raised |-> FALSE]

NoRead == [kind |-> "", name |-> "", raised |-> FALSE]

\* Task.send_signal: senders = (self, self.__class__, self.kuyruk)
Senders == <<"self", "Task", "kuyruk">>
Reversed(s) == [i \in 1..Len(s) |-> s[Len(s) + 1 - i]]
\* Mutant: send_signal ignores reverse.
SenderChain_NeverReversed(reverse) == Senders

SenderChain(reverse) == IF reverse THEN Reversed(Senders) ELSE Senders

\* Task.apply: limit = self.max_run_time or config.MAX_TASK_RUN_TIME or 0
Limit(t, c) == Or(Or(t.max_run_time, c.MAX_TASK_RUN_TIME), Some(0))[1]

\* Mutant: the global EAGER switch is not consulted.
IsEager_TaskOnly(t, c) == t.eager

\* Task.__call__: the eager branch is taken
IsEager(t, c) == t.eager \/ c.EAGER

\* Task.send_to_queue, lines 111 and 117-118: the name handed to Queue(...)
\* for host override h
ResolveQueue(t, h) ==
    IF TruthyStr(h) THEN t.queue \o "." \o h[1] ELSE t.queue

\* Mutant: the local override is applied after the host override.
ResolveLocal_OverrideLast(t, h, l) ==
    IF l # None THEN l[1]
    ELSE IF TruthyStr(h) THEN FALSE ELSE t.local

\* Task.send_to_queue, lines 112-119: the local flag handed to Queue(...)
\* for host override h and local override l
ResolveLocal(t, h, l) ==
    IF TruthyStr(h) THEN FALSE
    ELSE IF l # None THEN l[1] ELSE t.local

\* kuyruk.queue.Queue.name: the local host's name is appended when local
QueueName(q, l) == IF l THEN q \o "." \o Hostname ELSE q

\* Task.class_name
ClassName(t) == t.cls

\* Task.apply falls off its end: it returns None, which profile's inner
\* hands back to Task.__call__.
ApplyReturn(rv) == None

\* Task.name, with Task.module_name "module" and f.__name__ "f"
Name(t) ==
    IF TruthyStr(ClassName(t))
    THEN "module:" \o ClassName(t)[1] \o ".f"
    ELSE "module:f"

\* TaskResult.__getattr__ runs only when the instance dict has no such name.
GetAttrRaises(tr, item) == item \notin DOMAIN tr

(* ------------------------------- Init ---------------------------------- *)
\* Result.__init__ sets only _channel: neither result nor exception exists.
ResultInit ==
    /\ r_dict = <<>>
    /\ w_pc = "idle"
    /\ w_timeout = 0
    /\ start = 0
    /\ now = 0
    /\ w_exc = [type |-> "", args |-> <<>>]
    /\ w_value = None
    /\ reply = None
    /\ reply_time = 0
    /\ recv = ""

\* No invocation is under way.
CallInit ==
    /\ pc = "idle"
    /\ args = <<>>
    /\ kwargs = <<>>
    /\ bidx = 0
    /\ exc = NoExc
    /\ return_value = None
    /\ task_result = <<>>
    /\ alarm = FALSE
    /\ limit = 0
    /\ host = None
    /\ local = None
    /\ queue = ""
    /\ local_ = FALSE
    /\ channel = 0
    /\ desc = None
    /\ sent = <<>>
    /\ next_id = 1
    /\ trace = <<>>
    /\ read = NoRead

\* task.name has not been read.
NameInit ==
    /\ name_first = None
    /\ name_last = None

\* No Task.apply is under way and no alarm has been scheduled.
NestInit ==
    /\ stack = <<>>
    /\ sigalrm = 0
    /\ entered = 0
    /\ regions = 0
    /\ tl_step = ""

\* Task.__init__ (cls = None) and a kuyruk configuration; no invocation yet.
Init ==
    /\ \E c \in Configurations : task = c[1] /\ config = c[2]
    /\ CallInit
    /\ ResultInit
    /\ NameInit
    /\ NestInit

\* Task.__init__ with its default arguments, and a Result just constructed.
InitWait ==
    /\ task = [queue |-> "kuyruk", local |-> FALSE, eager |-> FALSE,
               retry |-> 0, max_run_time |-> None, cls |-> None]
    /\ config = [EAGER |-> FALSE, MAX_TASK_RUN_TIME |-> None]
    /\ CallInit
    /\ ResultInit
    /\ NameInit
    /\ NestInit

\* Mutant: an exception raised by a handler is swallowed and the broadcast
\* goes on with the next sender.
send_signal_Swallow(signal, reverse, extra, raised, pcDone, pcRaise) ==
    LET senders == SenderChain(reverse)
        last == bidx + 1 = Len(senders)
    IN  /\ trace' = Append(trace, Sig(signal, senders[bidx + 1], extra, raised))
        /\ exc' = exc
        /\ bidx' = IF last THEN 0 ELSE bidx + 1
        /\ pc' = IF last THEN pcDone ELSE pc

(* --------------------------- Task.send_signal -------------------------- *)
\* One pass of send_signal's loop: signal.send(sender, ...) for the next
\* sender of the chain.  The sender's handlers either all return or one of
\* them raises, which ends the broadcast with the exception in flight.
send_signal(signal, reverse, extra, raised, pcDone, pcRaise) ==
    LET senders == SenderChain(reverse)
        last == bidx + 1 = Len(senders)
    IN  /\ trace' = Append(trace, Sig(signal, senders[bidx + 1], extra, raised))
        /\ IF raised
           THEN /\ exc' = Exc("HandlerError", signal)
                /\ bidx' = 0
                /\ pc' = pcRaise
           ELSE /\ exc' = exc
                /\ bidx' = IF last THEN 0 ELSE bidx + 1
                /\ pc' = IF last THEN pcDone ELSE pc

(* ---------------------------- Task.__call__ ---------------------------- *)
\* A caller invokes the task: Task.__call__(*a, **kw) is entered.
call(a, kw) ==
    /\ pc = "idle"
    /\ args' = a
    /\ kwargs' = kw
    /\ pc' = "presend"
    /\ bidx' = 0
    /\ exc' = NoExc
    /\ return_value' = None
    /\ task_result' = <<>>
    /\ desc' = None
    /\ trace' = <<>>
    /\ read' = NoRead
    /\ UNCHANGED <<wvars, xvars, task, config, alarm, limit, host, local, queue, local_, channel, sent,
                   next_id>>

\* Mutant: Task.__call__ does not broadcast pre-send.
call_presend_Skipped ==
    /\ pc = "presend"
    /\ pc' = "dispatch"
    /\ UNCHANGED <<wvars, xvars, task, config, args, kwargs, bidx, exc,
                   return_value, task_result, alarm, limit, host, local,
                   queue, local_, channel, desc, sent, next_id, trace, read>>

\* line 63: send_signal(events.task_presend, args, kwargs, reverse=True)
call_presend ==
    /\ pc = "presend"
    /\ \E raised \in BOOLEAN :
          send_signal("task_presend", TRUE, None, raised, "dispatch", "raised")
    /\ UNCHANGED <<wvars, xvars, task, config, args, kwargs, return_value,
                   task_result, alarm, limit, host, local, queue, local_, channel, desc,
                   sent, next_id, read>>

\* lines 65-73: TaskResult(self), then the eager branch enters apply (whose
\* first statement computes limit) and the other branch pops the routing
\* keys and enters send_to_queue (lines 111-119 resolve queue and local_).
call_dispatch ==
    /\ pc = "dispatch"
    /\ task_result' = ("task" :> "self")
    /\ IF IsEager(task, config)
       THEN /\ limit' = Limit(task, config)
            /\ pc' = "prerun"
            /\ UNCHANGED <<kwargs, host, local, queue, local_>>
       ELSE /\ host' = Pop(kwargs, "kuyruk_host")
            /\ local' = Pop(kwargs, "kuyruk_local")
            /\ kwargs' = Without(kwargs, {"kuyruk_host", "kuyruk_local"})
            /\ queue' = ResolveQueue(task, host')
            /\ local_' = ResolveLocal(task, host', local')
            /\ pc' = "acquire"
            /\ UNCHANGED limit
    /\ UNCHANGED <<wvars, xvars, task, config, args, bidx, exc, return_value, alarm,
                   channel, desc, sent, next_id, trace, read>>

\* line 75: send_signal(events.task_postsend, args, kwargs); line 77 returns
call_postsend ==
    /\ pc = "postsend"
    /\ \E raised \in BOOLEAN :
          send_signal("task_postsend", FALSE, None, raised, "returned", "raised")
    /\ UNCHANGED <<wvars, xvars, task, config, args, kwargs, return_value,
                   task_result, alarm, limit, host, local, queue, local_, channel, desc,
                   sent, next_id, read>>

(* -------------------------- Task.send_to_queue -------------------------- *)
\* Task.get_task_description, lines 132-134: for a class task the first
\* positional argument is replaced by its id.
DescArgsFail(t, a) ==
    /\ t.cls # None
    /\ \/ a = <<>>
       \/ a[1].kind # "object"

DescArgs(t, a) ==
    IF t.cls # None
    THEN [i \in 1..Len(a) |-> IF i = 1 THEN a[1].id ELSE a[i]]
    ELSE a

\* Mutant: the descriptor carries retry 0 instead of the task's retry.
get_task_description_NoRetry(t, a, kw, q, id) ==
    [id |-> id,
     queue |-> q,
     args |-> DescArgs(t, a),
     kwargs |-> kw,
     module |-> "module",
     function |-> "f",
     class |-> ClassName(t),
     retry |-> 0,
     sender_hostname |-> Hostname]

\* Task.get_task_description, lines 136-149
get_task_description(t, a, kw, q, id) ==
    [id |-> id,
     queue |-> q,
     args |-> DescArgs(t, a),
     kwargs |-> kw,
     module |-> "module",
     function |-> "f",
     class |-> ClassName(t),
     retry |-> t.retry,
     sender_hostname |-> Hostname]

\* line 121: `with self.kuyruk.channel() as channel` is entered; acquiring
\* the channel succeeds or raises.
channel_acquire ==
    /\ pc = "acquire"
    /\ \E ok \in BOOLEAN :
          IF ok
          THEN /\ channel' = channel + 1
               /\ trace' = Append(trace, Op("acquire"))
               /\ pc' = "build"
               /\ exc' = exc
          ELSE /\ exc' = Exc("TransportError", "channel")
               /\ pc' = "raised"
               /\ UNCHANGED <<channel, trace>>
    /\ UNCHANGED <<wvars, xvars, task, config, args, kwargs, bidx, return_value,
                   task_result, alarm, limit, host, local, queue, local_, desc, sent,
                   next_id, read>>

\* lines 122-123: Queue(queue, channel, local_) and the descriptor
build_description ==
    /\ pc = "build"
    /\ IF DescArgsFail(task, args)
       THEN /\ exc' = Exc(IF args = <<>> THEN "IndexError" ELSE "AttributeError",
                          "build")
            /\ pc' = "release"
            /\ UNCHANGED <<desc, next_id, trace>>
       ELSE /\ desc' = Some(get_task_description(task, args, kwargs,
                                                 QueueName(queue, local_),
                                                 next_id))
            /\ next_id' = next_id + 1
            /\ trace' = Append(trace, Op("build"))
            /\ pc' = "send"
            /\ exc' = exc
    /\ UNCHANGED <<wvars, xvars, task, config, args, kwargs, bidx, return_value,
                   task_result, alarm, limit, host, local, queue, local_, channel, sent,
                   read>>

\* line 124: queue.send(desc) delivers the descriptor or raises
queue_send ==
    /\ pc = "send"
    /\ trace' = Append(trace, Op("send"))
    /\ pc' = "release"
    /\ \E ok \in BOOLEAN :
          IF ok
          THEN /\ sent' = Append(sent, desc[1])
               /\ exc' = exc
          ELSE /\ exc' = Exc("TransportError", "send")
               /\ sent' = sent
    /\ UNCHANGED <<wvars, xvars, task, config, args, kwargs, bidx, return_value,
                   task_result, alarm, limit, host, local, queue, local_, channel, desc,
                   next_id, read>>

\* Kuyruk.channel, the context manager of line 121: leaving it, normally or
\* with an exception, closes the channel it yielded.
ChannelExit(held) == held - 1

\* Mutant: the channel is released only when the block ends normally.
channel_release_LeakOnError ==
    /\ pc = "release"
    /\ channel' = IF exc = NoExc THEN channel - 1 ELSE channel
    /\ trace' = Append(trace, Op("release"))
    /\ IF exc = NoExc
       THEN /\ task_result' = task_result @@ ("id" :> desc[1].id)
            /\ pc' = "postsend"
       ELSE /\ pc' = "raised"
            /\ UNCHANGED task_result
    /\ UNCHANGED <<wvars, xvars, task, config, args, kwargs, bidx, exc,
                   return_value, alarm, limit, host, local, queue, local_,
                   desc, sent, next_id, read>>

\* The with block of line 121 is left: the channel is released; then
\* line 126 returns desc['id'] and line 72 stores it, or the exception
\* leaves Task.__call__.
channel_release ==
    /\ pc = "release"
    /\ channel' = ChannelExit(channel)
    /\ trace' = Append(trace, Op("release"))
    /\ IF exc = NoExc
       THEN /\ task_result' = task_result @@ ("id" :> desc[1].id)
            /\ pc' = "postsend"
       ELSE /\ pc' = "raised"
            /\ UNCHANGED task_result
    /\ UNCHANGED <<wvars, xvars, task, config, args, kwargs, bidx, exc, return_value,
                   alarm, limit, host, local, queue, local_, desc, sent, next_id, read>>

(* ------------------------------ Task.apply ----------------------------- *)
\* line 175: send_signal(events.task_prerun, reverse=True), inside try
apply_prerun ==
    /\ pc = "prerun"
    /\ \E raised \in BOOLEAN :
          send_signal("task_prerun", TRUE, None, raised, "tl_enter", "failure")
    /\ UNCHANGED <<wvars, xvars, task, config, args, kwargs, return_value,
                   task_result, alarm, limit, host, local, queue, local_, channel, desc,
                   sent, next_id, read>>

\* time_limit, lines 244-245: signal.signal(...); signal.alarm(seconds).
\* alarm(0) schedules nothing and cancels an alarm already pending.
time_limit_enter ==
    /\ pc = "tl_enter"
    /\ alarm' = (limit > 0)
    /\ trace' = Append(trace, Op("alarm_set"))
    /\ pc' = "body"
    /\ UNCHANGED <<wvars, xvars, task, config, args, kwargs, bidx, exc, return_value,
                   task_result, limit, host, local, queue, local_, channel, desc, sent,
                   next_id, read>>

\* line 178: the wrapped function returns v
body_returns(v) ==
    /\ pc = "body"
    /\ return_value' = v
    /\ trace' = Append(trace, Op("body_return"))
    /\ pc' = "tl_exit"
    /\ UNCHANGED <<wvars, xvars, task, config, args, kwargs, bidx, exc, task_result,
                   alarm, limit, host, local, queue, local_, channel, desc, sent, next_id,
                   read>>

\* line 178: the wrapped function raises e
body_raises(e) ==
    /\ pc = "body"
    /\ exc' = e
    /\ trace' = Append(trace, [Op("body_raise") EXCEPT !.extra = Some(e)])
    /\ pc' = "tl_exit"
    /\ UNCHANGED <<wvars, xvars, task, config, args, kwargs, bidx, return_value,
                   task_result, alarm, limit, host, local, queue, local_, channel, desc,
                   sent, next_id, read>>

\* time_limit.signal_handler, lines 242-243: SIGALRM is delivered while the
\* alarm is pending, i.e. between signal.alarm(seconds) and signal.alarm(0),
\* and raises Timeout in the frame that is executing.
signal_handler ==
    /\ alarm
    /\ pc \in {"body", "tl_exit"}
    /\ alarm' = FALSE
    /\ exc' = Timeout
    /\ trace' = Append(trace, Op("timeout"))
    /\ pc' = "tl_exit"
    /\ UNCHANGED <<wvars, xvars, task, config, args, kwargs, bidx, return_value,
                   task_result, limit, host, local, queue, local_, channel, desc, sent,
                   next_id, read>>

\* Mutant: apply has no except clause, an exception goes straight to finally.
time_limit_exit_NoExcept ==
    /\ pc = "tl_exit"
    /\ alarm' = FALSE
    /\ trace' = Append(trace, Op("alarm_clear"))
    /\ pc' = IF exc = NoExc THEN "success" ELSE "postrun"
    /\ UNCHANGED <<wvars, xvars, task, config, args, kwargs, bidx, exc, return_value,
                   task_result, limit, host, local, queue, local_, channel,
                   desc, sent, next_id, read>>

\* time_limit, lines 248-249: finally signal.alarm(0); then apply's try
\* statement continues in its else clause, its except clause (Exception and
\* subclasses only) or straight in its finally clause.
time_limit_exit ==
    /\ pc = "tl_exit"
    /\ alarm' = FALSE
    /\ trace' = Append(trace, Op("alarm_clear"))
    /\ pc' = IF exc = NoExc THEN "success"
             ELSE IF exc.isException THEN "failure" ELSE "postrun"
    /\ UNCHANGED <<wvars, xvars, task, config, args, kwargs, bidx, exc, return_value,
                   task_result, limit, host, local, queue, local_, channel, desc, sent,
                   next_id, read>>

\* Mutant: post-run is sent at the end of the try body instead of in a
\* finally clause, so a raising failure handler skips it.
apply_failure_NoFinally ==
    /\ pc = "failure"
    /\ \E raised \in BOOLEAN :
          send_signal("task_failure", FALSE, Some(exc), raised,
                      "postrun", "raised")
    /\ UNCHANGED <<wvars, xvars, task, config, args, kwargs, return_value,
                   task_result, alarm, limit, host, local, queue, local_,
                   channel, desc, sent, next_id, read>>

\* lines 179-181: send_signal(events.task_failure, exc_info=...); raise
apply_failure ==
    /\ pc = "failure"
    /\ \E raised \in BOOLEAN :
          send_signal("task_failure", FALSE, Some(exc), raised,
                      "postrun", "postrun")
    /\ UNCHANGED <<wvars, xvars, task, config, args, kwargs, return_value,
                   task_result, alarm, limit, host, local, queue, local_, channel, desc,
                   sent, next_id, read>>

\* Mutant: success is sent inside the try block, so that a raising success
\* handler is caught by apply's except clause.
apply_success_InsideTry ==
    /\ pc = "success"
    /\ \E raised \in BOOLEAN :
          send_signal("task_success", FALSE, Some(return_value), raised,
                      "postrun", "failure")
    /\ UNCHANGED <<wvars, xvars, task, config, args, kwargs, return_value,
                   task_result, alarm, limit, host, local, queue, local_,
                   channel, desc, sent, next_id, read>>

\* lines 182-183: send_signal(events.task_success, return_value=...)
apply_success ==
    /\ pc = "success"
    /\ \E raised \in BOOLEAN :
          send_signal("task_success", FALSE, Some(return_value), raised,
                      "postrun", "postrun")
    /\ UNCHANGED <<wvars, xvars, task, config, args, kwargs, return_value,
                   task_result, alarm, limit, host, local, queue, local_, channel, desc,
                   sent, next_id, read>>

\* Mutant: after post-run apply returns normally whatever is in flight.
apply_postrun_Swallow ==
    /\ pc = "postrun"
    /\ \E raised \in BOOLEAN :
          send_signal("task_postrun", FALSE, None, raised,
                      "apply_return", "raised")
    /\ UNCHANGED <<wvars, xvars, task, config, args, kwargs, return_value,
                   task_result, alarm, limit, host, local, queue, local_,
                   channel, desc, sent, next_id, read>>

\* lines 184-185: finally send_signal(events.task_postrun); afterwards the
\* exception in flight, if any, leaves apply, profile's inner and __call__.
apply_postrun ==
    /\ pc = "postrun"
    /\ \E raised \in BOOLEAN :
          send_signal("task_postrun", FALSE, None, raised,
                      IF exc = NoExc THEN "apply_return" ELSE "raised",
                      "raised")
    /\ UNCHANGED <<wvars, xvars, task, config, args, kwargs, return_value,
                   task_result, alarm, limit, host, local, queue, local_, channel, desc,
                   sent, next_id, read>>

\* apply ends; profile's inner (lines 27-30) logs and returns apply's
\* result, which line 68 stores in task_result.result.
apply_return ==
    /\ pc = "apply_return"
    /\ task_result' = task_result @@ ("result" :> ApplyReturn(return_value))
    /\ trace' = Append(trace, Op("apply_return"))
    /\ pc' = "postsend"
    /\ UNCHANGED <<wvars, xvars, task, config, args, kwargs, bidx, exc, return_value,
                   alarm, limit, host, local, queue, local_, channel, desc, sent, next_id,
                   read>>

(* ------------------------------ TaskResult ----------------------------- *)
AttrNames == {"task", "id", "result", "other"}
ItemKeys == {"key"}

\* The caller reads an attribute of the returned TaskResult
\* (TaskResult.__getattr__, lines 224-225).
read_attr(item) ==
    /\ pc = "returned"
    /\ read' = [kind |-> "attr", name |-> item,
                raised |-> GetAttrRaises(task_result, item)]
    /\ UNCHANGED <<wvars, xvars, task, config, pc, args, kwargs, bidx, exc,
                   return_value, task_result, alarm, limit, host, local, queue, local_,
                   channel, desc, sent, next_id, trace>>

\* The caller reads an item of the returned TaskResult
\* (TaskResult.__getitem__, lines 227-228).
read_item(item) ==
    /\ pc = "returned"
    /\ read' = [kind |-> "item", name |-> item, raised |-> TRUE]
    /\ UNCHANGED <<wvars, xvars, task, config, pc, args, kwargs, bidx, exc,
                   return_value, task_result, alarm, limit, host, local, queue, local_,
                   channel, desc, sent, next_id, trace>>

(* ------------------------------ Task.__get__ --------------------------- *)
\* lines 92-95: the task is accessed through objtype or one of its
\* instances, before the invocation.
get(objtype) ==
    /\ pc = "idle"
    /\ task.cls # Some(objtype)
    /\ task' = [task EXCEPT !.cls = Some(objtype)]
    /\ UNCHANGED <<wvars, xvars, config, pc, args, kwargs, bidx, exc, return_value,
                   task_result, alarm, limit, host, local, queue, local_, channel, desc,
                   sent, next_id, trace, read>>

Next ==
    \/ \E in \in CallInputs : call(in[1], in[2])
    \/ call_presend
    \/ call_dispatch
    \/ call_postsend
    \/ channel_acquire
    \/ build_description
    \/ queue_send
    \/ channel_release
    \/ apply_prerun
    \/ time_limit_enter
    \/ \E v \in BodyValues : body_returns(v)
    \/ \E e \in BodyErrors : body_raises(e)
    \/ signal_handler
    \/ time_limit_exit
    \/ apply_failure
    \/ apply_success
    \/ apply_postrun
    \/ apply_return
    \/ \E item \in AttrNames : read_attr(item)
    \/ \E item \in ItemKeys : read_item(item)
    \/ \E objtype \in Classes : get(objtype)

Spec == Init /\ [][Next]_vars

(* ------------------------------- Task.name ----------------------------- *)
\* lines 187-197: task.name is read, between invocations or after one
read_name ==
    /\ pc \in {"idle", "returned", "raised"}
    /\ name_last' = Some(Name(task))
    /\ name_first' = IF name_first = None THEN Some(Name(task)) ELSE name_first
    /\ UNCHANGED <<cvars, wvars, tvars>>

\* lines 92-95: the task is accessed through objtype or one of its
\* instances (a subclass of the defining class included), after an
\* invocation has ended.
get_again(objtype) ==
    /\ pc \in {"returned", "raised"}
    /\ task.cls # Some(objtype)
    /\ task' = [task EXCEPT !.cls = Some(objtype)]
    /\ UNCHANGED <<wvars, xvars, config, pc, args, kwargs, bidx, exc,
                   return_value, task_result, alarm, limit, host, local,
                   queue, local_, channel, desc, sent, next_id, trace, read>>

\* A method task (default options) is accessed, invoked with its object and
\* has its name read, in any order.
NextName ==
    \/ read_name
    \/ \E objtype \in Classes : get(objtype)
    \/ \E objtype \in Classes : get_again(objtype)
    \/ call(<<ObjWithId>>, <<>>)
    \/ call_presend
    \/ call_dispatch
    \/ channel_acquire
    \/ build_description
    \/ queue_send
    \/ channel_release
    \/ call_postsend

SpecName == InitWait /\ [][NextName]_vars

(* ------------------------- nested Task.apply --------------------------- *)
\* Eager tasks invoked from inside the body of an eager task: each
\* Task.apply under way is a frame of the stack, the alarm is the one
\* SIGALRM timer of the process.
Frame(l) == [pc |-> "tl_enter", limit |-> l, region |-> 0, exc |-> NoExc,
             inner_ended |-> FALSE, late |-> FALSE]
Top == stack[Len(stack)]
SetTop(f) == [stack EXCEPT ![Len(stack)] = f]
Parent == stack[Len(stack) - 1]
\* The stack after its innermost frame ended, leaving exception e (or none)
\* in the body that invoked it, which catches it or lets it propagate.
PopInto(e, caught, late) ==
    IF Len(stack) = 1 THEN <<>>
    ELSE [SubSeq(stack, 1, Len(stack) - 1) EXCEPT ![Len(stack) - 1] =
             [Parent EXCEPT
                 !.inner_ended = TRUE,
                 !.pc = IF e = NoExc \/ caught THEN "body" ELSE "tl_exit",
                 !.exc = IF e = NoExc \/ caught THEN NoExc ELSE e,
                 !.late = late]]

\* An eager task is applied, by a caller outside any task or by the body
\* under way; lines 170-175: limit is computed and pre-run is broadcast.
apply_nested(l) ==
    /\ Len(stack) < MaxDepth
    /\ regions < MaxRegions
    /\ IF stack = <<>> THEN TRUE ELSE Top.pc = "body"
    /\ stack' = Append(stack, Frame(l))
    /\ tl_step' = "apply"
    /\ UNCHANGED <<cvars, wvars, nvars, sigalrm, entered, regions>>

\* time_limit, lines 244-245: signal.signal(...); signal.alarm(seconds)
\* replaces the process's timer; alarm(0) only cancels.
time_limit_nested_enter ==
    /\ stack # <<>>
    /\ Top.pc = "tl_enter"
    /\ regions' = regions + 1
    /\ entered' = regions + 1
    /\ sigalrm' = IF Top.limit > 0 THEN regions + 1 ELSE 0
    /\ stack' = SetTop([Top EXCEPT !.pc = "body", !.region = regions + 1])
    /\ tl_step' = "enter"
    /\ UNCHANGED <<cvars, wvars, nvars>>

\* line 178: the body of the innermost task returns (NoExc) or raises e
f_nested(e) ==
    /\ stack # <<>>
    /\ Top.pc = "body"
    /\ stack' = SetTop([Top EXCEPT !.pc = "tl_exit", !.exc = e])
    /\ tl_step' = "body"
    /\ UNCHANGED <<cvars, wvars, nvars, sigalrm, entered, regions>>

\* time_limit.signal_handler, lines 242-243: the pending SIGALRM is
\* delivered and Timeout is raised in the frame that is executing.  Inside
\* a region it leaves the region; in an apply that has not reached
\* signal.alarm yet it leaves that apply (whose except and finally clauses
\* run) and arrives in the body that invoked it.
signal_handler_nested ==
    /\ sigalrm # 0
    /\ stack # <<>>
    /\ sigalrm' = 0
    /\ stack' = IF Top.pc = "tl_enter"
                 THEN PopInto(Timeout, FALSE,
                              Len(stack) > 1 /\ Parent.inner_ended)
                 ELSE SetTop([Top EXCEPT !.pc = "tl_exit", !.exc = Timeout,
                                         !.late = Top.inner_ended])
    /\ tl_step' = "signal"
    /\ UNCHANGED <<cvars, wvars, nvars, entered, regions>>

\* Mutant: leaving a region re-arms the alarm of the region around it.
time_limit_nested_exit_Restore ==
    /\ stack # <<>>
    /\ Top.pc = "tl_exit"
    /\ sigalrm' = IF Len(stack) > 1 /\ Parent.limit > 0
                   THEN Parent.region ELSE 0
    /\ \E caught \in BOOLEAN :
          stack' = PopInto(Top.exc, caught,
                           Len(stack) > 1 /\ Parent.late)
    /\ tl_step' = "exit"
    /\ UNCHANGED <<cvars, wvars, nvars, entered, regions>>

\* time_limit, lines 248-249: finally signal.alarm(0); then apply's except,
\* else and finally clauses run and apply ends: its caller, if a task body,
\* goes on, with the exception that left apply if there is one.
time_limit_nested_exit ==
    /\ stack # <<>>
    /\ Top.pc = "tl_exit"
    /\ sigalrm' = 0
    /\ \E caught \in BOOLEAN :
          stack' = PopInto(Top.exc, caught,
                           Len(stack) > 1 /\ Parent.late)
    /\ tl_step' = "exit"
    /\ UNCHANGED <<cvars, wvars, nvars, entered, regions>>

NextNested ==
    \/ \E l \in 0..MaxRunTime : apply_nested(l)
    \/ time_limit_nested_enter
    \/ \E e \in {NoExc} \cup BodyErrors : f_nested(e)
    \/ signal_handler_nested
    \/ time_limit_nested_exit

\* An eager task with Task.__init__'s other defaults; nothing is running.
InitNested ==
    /\ task = [queue |-> "kuyruk", local |-> FALSE, eager |-> TRUE,
               retry |-> 0, max_run_time |-> None, cls |-> None]
    /\ config = [EAGER |-> FALSE, MAX_TASK_RUN_TIME |-> None]
    /\ CallInit
    /\ ResultInit
    /\ NameInit
    /\ NestInit

SpecNested == InitNested /\ [][NextNested]_vars

(* -------------------------------- Result ------------------------------- *)
NoWExc == [type |-> "", args |-> <<>>]
WExc(t) == [type |-> t, args |-> <<>>]

\* Reply messages as json.loads yields them: a dict whose result is null or
\* a number and whose exception is absent, null or {type, value, traceback}.
ExcPayload == [type |-> "ValueError", value |-> "bad", traceback |-> "tb"]
ReplyResults == {None} \cup {Some(n) : n \in 1..MaxVal}
ReplyExceptions == {None, Some(ExcPayload)}
Replies ==
    {("result" :> r) : r \in ReplyResults}
        \cup {("result" :> r) @@ ("exception" :> e) :
                 r \in ReplyResults, e \in ReplyExceptions}
        \cup {("exception" :> Some(ExcPayload))}

\* dict.get(key): None when the key is absent
Get(d, key) == IF key \in DOMAIN d THEN d[key] ELSE None

\* Result._process_message, line 20: d['result'] raises KeyError when the
\* reply has no result key; nothing has been assigned by then.
ProcessRaises(d) == "result" \notin DOMAIN d

\* Result._process_message, lines 20-21
_process_message(rd, d) ==
    ("result" :> d["result"]) @@ ("exception" :> Get(d, "exception")) @@ rd

\* Result.wait, lines 29-32: RemoteException(type, value, traceback)
RemoteException(e) ==
    [type |-> "RemoteException", args |-> <<e.type, e.value, e.traceback>>]

\* A reply is processed on the channel before wait is called.  A KeyError
\* of _process_message then reaches whoever drained the connection.
process_message(d) ==
    /\ w_pc = "idle"
    /\ reply = None
    /\ reply' = Some(d)
    /\ reply_time' = now
    /\ r_dict' = IF ProcessRaises(d) THEN r_dict ELSE _process_message(r_dict, d)
    /\ UNCHANGED <<cvars, xvars, recv, w_pc, w_timeout, start, now, w_exc, w_value>>

\* Result.wait, line 26: start = time.time()
wait(timeout) ==
    /\ w_pc = "idle"
    /\ w_timeout' = timeout
    /\ start' = now
    /\ w_pc' = "check"
    /\ UNCHANGED <<cvars, xvars, recv, r_dict, now, w_exc, w_value, reply, reply_time>>

\* Result.wait, lines 28-35: the outcome check.  Reading self.exception
\* before any reply raises AttributeError, which is passed over.
wait_check ==
    /\ w_pc = "check"
    /\ IF "exception" \notin DOMAIN r_dict
       THEN /\ w_pc' = "drain"
            /\ UNCHANGED <<w_exc, w_value>>
       ELSE IF r_dict["exception"] # None
       THEN /\ w_exc' = RemoteException(r_dict["exception"][1])
            /\ w_pc' = "raised"
            /\ UNCHANGED w_value
       ELSE /\ w_value' = r_dict["result"]
            /\ w_pc' = "returned"
            /\ UNCHANGED w_exc
    /\ UNCHANGED <<cvars, xvars, recv, r_dict, w_timeout, start, now, reply, reply_time>>

\* line 38: drain_events(timeout=1) hands a reply to _process_message dt
\* after the slice began and returns; a KeyError raised there leaves wait.
drain_reply(d, dt) ==
    /\ w_pc = "drain"
    /\ now + dt <= MaxTime
    /\ now' = now + dt
    /\ reply' = Some(d)
    /\ reply_time' = now + dt
    /\ IF ProcessRaises(d)
       THEN /\ w_exc' = WExc("KeyError")
            /\ w_pc' = "raised"
            /\ UNCHANGED r_dict
       ELSE /\ r_dict' = _process_message(r_dict, d)
            /\ w_pc' = "check"
            /\ UNCHANGED w_exc
    /\ recv' = "reply"
    /\ UNCHANGED <<cvars, xvars, w_timeout, start, w_value>>

\* line 38: drain_events returns after an event that is no reply
drain_other(dt) ==
    /\ w_pc = "drain"
    /\ now + dt <= MaxTime
    /\ now' = now + dt
    /\ w_pc' = "check"
    /\ recv' = "event"
    /\ UNCHANGED <<cvars, xvars, r_dict, w_timeout, start, w_exc, w_value, reply,
                   reply_time>>

\* lines 39-41: the one second slice ends with socket.timeout; the overall
\* deadline is looked at here and nowhere else.
drain_timeout ==
    /\ w_pc = "drain"
    /\ now + 1 <= MaxTime
    /\ now' = now + 1
    /\ IF (now + 1) - start > w_timeout
       THEN /\ w_exc' = WExc("ResultTimeout")
            /\ w_pc' = "raised"
       ELSE /\ w_pc' = "check"
            /\ UNCHANGED w_exc
    /\ recv' = "timeout"
    /\ UNCHANGED <<cvars, xvars, r_dict, w_timeout, start, w_value, reply,
                   reply_time>>

\* Mutant: every socket.error is raised again, EINTR included.
drain_eintr_Raises(dt) ==
    /\ w_pc = "drain"
    /\ now + dt <= MaxTime
    /\ now' = now + dt
    /\ w_exc' = WExc("socket.error")
    /\ w_pc' = "raised"
    /\ recv' = "eintr"
    /\ UNCHANGED <<cvars, xvars, r_dict, w_timeout, start, w_value, reply,
                   reply_time>>

\* lines 42-44: socket.error with errno EINTR is passed over
drain_eintr(dt) ==
    /\ w_pc = "drain"
    /\ now + dt <= MaxTime
    /\ now' = now + dt
    /\ w_pc' = "check"
    /\ recv' = "eintr"
    /\ UNCHANGED <<cvars, xvars, r_dict, w_timeout, start, w_exc, w_value, reply,
                   reply_time>>

\* lines 42-44: any other socket.error is raised again
drain_error(dt) ==
    /\ w_pc = "drain"
    /\ now + dt <= MaxTime
    /\ now' = now + dt
    /\ w_exc' = WExc("socket.error")
    /\ w_pc' = "raised"
    /\ recv' = "error"
    /\ UNCHANGED <<cvars, xvars, r_dict, w_timeout, start, w_value, reply,
                   reply_time>>

NextWait ==
    \/ \E d \in Replies : process_message(d)
    \/ \E timeout \in 0..MaxTimeout : wait(timeout)
    \/ wait_check
    \/ \E d \in Replies, dt \in 0..1 : drain_reply(d, dt)
    \/ \E dt \in 0..1 : drain_other(dt)
    \/ drain_timeout
    \/ \E dt \in 0..1 : drain_eintr(dt)
    \/ \E dt \in 0..1 : drain_error(dt)

SpecWait == InitWait /\ [][NextWait]_vars

(* ------------------------------ properties ----------------------------- *)
\* Positions of the trace where signal n was sent to a sender, in order.
SignalAt(n) == {i \in 1..Len(trace) : trace[i].op = "signal" /\ trace[i].name = n}
OpAt(o) == {i \in 1..Len(trace) : trace[i].op = o}
Broadcast(n) == SelectSeq(trace, LAMBDA e : e.op = "signal" /\ e.name = n)
SendersOf(n) == [i \in 1..Len(Broadcast(n)) |-> Broadcast(n)[i].sender]
IsPrefix(s, t) == Len(s) <= Len(t) /\ \A i \in 1..Len(s) : s[i] = t[i]

\* The invocation takes the eager path (Task.eager or the global switch).
EagerPath == task.eager \/ config.EAGER
\* The invocation has got past the branch of Task.__call__.
Dispatched == pc \notin {"idle", "presend", "dispatch"} /\ task_result # <<>>
\* Task.apply has been entered / has ended (returned or raised).
ApplyEntered == SignalAt("task_prerun") # {}
ApplyEnded ==
    /\ ApplyEntered
    /\ pc \in {"apply_return", "postsend", "returned", "raised"}

\* C1: on the eager path, when the body returned value v and the handle was
\* returned, the handle's result is v.
C1_EagerResultIsReturnValue ==
    (pc = "returned" /\ EagerPath /\ OpAt("body_return") # {})
        => task_result["result"] = return_value

\* C2: an eager invocation never acquires a channel, builds or sends a
\* descriptor, whatever the body does and whatever routing keys were passed;
\* a queued invocation never runs the body and never broadcasts pre-run,
\* success, failure or post-run.
C2_EagerBypassesTransport ==
    /\ EagerPath =>
          /\ channel = 0
          /\ sent = <<>>
          /\ desc = None
          /\ next_id = 1
          /\ \A i \in 1..Len(trace) :
                trace[i].op \notin {"acquire", "build", "send", "release"}
    /\ ~EagerPath =>
          /\ alarm = FALSE
          /\ \A i \in 1..Len(trace) :
                /\ trace[i].op \notin {"alarm_set", "body_return", "body_raise",
                                       "timeout", "alarm_clear", "apply_return"}
                /\ trace[i].name \notin {"task_prerun", "task_success",
                                         "task_failure", "task_postrun"}

\* An eager invocation that was given both routing keys and whose body
\* raised has ended.
C2_Witness ==
    /\ EagerPath
    /\ pc = "raised"
    /\ OpAt("body_raise") # {}
    /\ {"kuyruk_host", "kuyruk_local"} \subseteq DOMAIN kwargs

\* C3: every execution of Task.apply broadcasts post-run exactly once, as
\* its last broadcast: not before the execution's other broadcasts are
\* over, and by the time apply ends, however the body and the pre-run,
\* success and failure handlers ended.
C3_PostrunOnceAndLast ==
    /\ IsPrefix(SendersOf("task_postrun"), <<"self", "Task", "kuyruk">>)
    /\ \A i \in SignalAt("task_postrun") : \A j \in 1..Len(trace) :
          (j > i /\ trace[j].op = "signal")
              => trace[j].name \in {"task_postrun", "task_postsend"}
    /\ \A i \in SignalAt("task_postrun") : \A j \in SignalAt("task_postsend") :
          i < j
    /\ ApplyEnded => SignalAt("task_postrun") # {}
    /\ pc \in {"prerun", "tl_enter", "body", "tl_exit", "failure", "success"}
          => SignalAt("task_postrun") = {}

\* The deadline interrupted the body, a failure handler raised, and apply
\* has ended after its post-run broadcast.
C3_Witness ==
    /\ pc = "raised"
    /\ OpAt("timeout") # {}
    /\ exc = Exc("HandlerError", "task_failure")
    /\ Len(SendersOf("task_postrun")) = 3

\* C4: within a broadcast the senders are notified in a fixed order, each at
\* most once: queue-client, class, task for pre-send and pre-run; task,
\* class, queue-client for post-send, success, failure and post-run; and a
\* sender is notified only if the handlers of the senders before it returned.
C4_SenderOrder ==
    /\ \A n \in {"task_presend", "task_prerun"} :
          IsPrefix(SendersOf(n), <<"kuyruk", "Task", "self">>)
    /\ \A n \in {"task_postsend", "task_success", "task_failure",
                 "task_postrun"} :
          IsPrefix(SendersOf(n), <<"self", "Task", "kuyruk">>)
    /\ \A i \in 1..Len(trace) :
          (trace[i].op = "signal" /\ trace[i].raised)
              => \A j \in 1..Len(trace) :
                    j > i => trace[j].name # trace[i].name

\* An eager invocation has returned its handle: pre-send, pre-run, success,
\* post-run and post-send each went to all three senders.
C4_Witness ==
    /\ pc = "returned"
    /\ \A n \in {"task_presend", "task_prerun", "task_success",
                 "task_postrun", "task_postsend"} : Len(SendersOf(n)) = 3

\* C5: send_to_queue resolves, from the task's queue and local flag and the
\* per-call host and local overrides: with a host (a non-empty host name;
\* None and the empty string are no host), queue "<task.queue>.<host>" and
\* local off, whatever the local override and task.local; without a host,
\* queue task.queue and local the override when it is true or false, and
\* task.local when there is no override.
C5_QueueResolution ==
    (~EagerPath /\ Dispatched) =>
        LET h == IF host = None THEN "" ELSE host[1]
        IN  IF h # ""
            THEN queue = task.queue \o "." \o h /\ local_ = FALSE
            ELSE /\ queue = task.queue
                 /\ local = Some(TRUE) => local_ = TRUE
                 /\ local = Some(FALSE) => local_ = FALSE
                 /\ local = None => local_ = task.local

\* A task configured local was sent with a host and local=True, and a task
\* configured local was sent with local=False and no host.
C5_Witness ==
    /\ pc = "returned"
    /\ ~EagerPath
    /\ task.local
    /\ host = Some("alpha")
    /\ local = Some(TRUE)
    /\ sent # <<>>

\* The alarm went off while the body was running under a non-zero limit.
DeadlineInterruptedBody ==
    /\ limit > 0
    /\ \E i \in OpAt("timeout") : i > 1 /\ trace[i - 1].op = "alarm_set"
HandlerRaisedIn(n) == \E i \in SignalAt(n) : trace[i].raised

\* C6 as stated: when the deadline expires before the body returned, apply
\* ends by raising Timeout to its caller, failure was broadcast with that
\* Timeout as exception info, success was not broadcast and post-run was
\* broadcast after failure.
C6_TimeoutPropagates ==
    (ApplyEnded /\ DeadlineInterruptedBody) =>
        /\ pc = "raised"
        /\ exc = Timeout
        /\ SignalAt("task_failure") # {}
        /\ \A i \in SignalAt("task_failure") : trace[i].extra = Some(Timeout)
        /\ SignalAt("task_success") = {}
        /\ SignalAt("task_postrun") # {}
        /\ \A i \in SignalAt("task_failure") : \A j \in SignalAt("task_postrun") :
              i < j

\* C6 amended: when the deadline expires before the body returned, apply
\* ends by raising to its caller: the Timeout, unless a handler of the
\* failure or of the post-run broadcast raised, whose exception then takes
\* the Timeout's place; failure was broadcast with the Timeout as exception
\* info, success was not broadcast and post-run was broadcast after failure.
C6_TimeoutFailure ==
    (ApplyEnded /\ DeadlineInterruptedBody) =>
        /\ pc = "raised"
        /\ IF HandlerRaisedIn("task_postrun")
           THEN exc = Exc("HandlerError", "task_postrun")
           ELSE IF HandlerRaisedIn("task_failure")
           THEN exc = Exc("HandlerError", "task_failure")
           ELSE exc = Timeout
        /\ SignalAt("task_failure") # {}
        /\ \A i \in SignalAt("task_failure") : trace[i].extra = Some(Timeout)
        /\ SignalAt("task_success") = {}
        /\ SignalAt("task_postrun") # {}
        /\ \A i \in SignalAt("task_failure") : \A j \in SignalAt("task_postrun") :
              i < j

\* The deadline interrupted the body and the Timeout reached the caller
\* after complete failure and post-run broadcasts.
C6_Witness ==
    /\ pc = "raised"
    /\ DeadlineInterruptedBody
    /\ exc = Timeout
    /\ Len(SendersOf("task_failure")) = 3
    /\ Len(SendersOf("task_postrun")) = 3

\* C7: once a reply has been handed to the Result, wait ends at its next
\* outcome check: with RemoteException(type, value, traceback) when the
\* reply's exception is not null (also when the reply has no result field),
\* and by returning the reply's result otherwise.
C7_ReplyDecidesWait ==
    (reply # None /\ w_pc \in {"returned", "raised"}) =>
        IF Get(reply[1], "exception") # None
        THEN /\ w_pc = "raised"
             /\ w_exc = [type |-> "RemoteException",
                         args |-> <<reply[1]["exception"][1].type,
                                    reply[1]["exception"][1].value,
                                    reply[1]["exception"][1].traceback>>]
        ELSE /\ w_pc = "returned"
             /\ w_value = reply[1]["result"]

\* C8: wait never returns a value and never raises RemoteException for a
\* reply observed after timeout seconds from its start (the part of C8 a
\* finite run refutes).
C8_NoOutcomeAfterDeadline ==
    (w_pc = "returned" \/ (w_pc = "raised" /\ w_exc.type = "RemoteException"))
        => reply_time - start <= w_timeout

\* C9: every read of an attribute or an item of a handle returned from the
\* queued path raises.
C9_QueuedHandleRejectsReads ==
    (pc = "returned" /\ ~EagerPath /\ read # NoRead) => read.raised

\* C10: a queued invocation builds at most one descriptor, whose retry field
\* is the task's retry, and attempts at most one send: exactly one when it
\* returns a handle; when acquiring the channel or the send fails, the
\* failure leaves Task.__call__ with no further send, no post-send broadcast
\* and no handle.
C10_RetryIsInert ==
    ~EagerPath =>
        /\ desc # None => desc[1].retry = task.retry
        /\ Cardinality(OpAt("build")) <= 1
        /\ Cardinality(OpAt("send")) <= 1
        /\ Len(sent) <= 1
        /\ \A i \in 1..Len(sent) : sent[i].retry = task.retry
        /\ pc \in {"postsend", "returned"} =>
              /\ Cardinality(OpAt("send")) = 1
              /\ sent = <<desc[1]>>
        /\ (exc.origin \in {"channel", "send"}) =>
              /\ pc \in {"release", "raised"}
              /\ sent = <<>>
              /\ SignalAt("task_postsend") = {}
              /\ "id" \notin DOMAIN task_result
              /\ Cardinality(OpAt("send")) = (IF exc.origin = "send" THEN 1 ELSE 0)

\* A task with a non-zero retry count was invoked, its one send failed and
\* the failure has left Task.__call__.
C10_Witness ==
    /\ pc = "raised"
    /\ ~EagerPath
    /\ task.retry > 0
    /\ exc = Exc("TransportError", "send")
    /\ Cardinality(OpAt("send")) = 1

\* C11: every read of task.name after the first returns what the first read
\* returned, whatever accesses through owning types (Task.__get__) and
\* invocations came in between.
C11_NameStable ==
    name_first # None => name_last = name_first

\* C12: a queued invocation holds a channel only between acquiring it and
\* leaving the with block: once the invocation has ended (send succeeded,
\* send failed, or building the descriptor raised) no channel is held, each
\* acquire has its release, and the release precedes the post-send
\* broadcast.
C12_ChannelReleased ==
    ~EagerPath =>
        /\ channel = (IF pc \in {"build", "send", "release"} THEN 1 ELSE 0)
        /\ pc \in {"postsend", "returned", "raised"} =>
              /\ channel = 0
              /\ Cardinality(OpAt("release")) = Cardinality(OpAt("acquire"))
        /\ \A i \in SignalAt("task_postsend") :
              \E j \in OpAt("release") : j < i

\* A method task was sent with a first argument that has no id: building
\* the descriptor raised inside the with block and the invocation has ended.
C12_Witness ==
    /\ pc = "raised"
    /\ exc = Exc("AttributeError", "build")
    /\ OpAt("acquire") # {}
    /\ OpAt("release") # {}
    /\ channel = 0

\* Signals broadcast by Task.__call__ and Task.apply.
Events == {"task_presend", "task_postsend", "task_prerun", "task_success",
           "task_failure", "task_postrun"}
\* Calls, in the current invocation, of a handler registered for signal n
\* and sender s.
HandlerCalls(n, s) == Cardinality({i \in SignalAt(n) : trace[i].sender = s})

\* C13: a broadcast that ran to its end delivered the signal to exactly
\* three senders: the task, the class the task method is bound to
\* (Task.cls) and the queue client; so a handler registered for the signal
\* and that class was called exactly once.
C13_OwningTypeNotified ==
    \A n \in Events :
        (task.cls # None /\ Len(SendersOf(n)) = 3) =>
            /\ {SendersOf(n)[i] : i \in 1..3} = {"self", task.cls[1], "kuyruk"}
            /\ HandlerCalls(n, task.cls[1]) = 1

\* What the entries of the trace are: the signal sent or the step taken.
Kind(e) == IF e.op = "signal" THEN e.name ELSE e.op
TraceKinds == [i \in 1..Len(trace) |-> Kind(trace[i])]
Thrice(k) == <<k, k, k>>
\* The steps of an eager and of a queued invocation that returns a handle.
EagerOrder ==
    Thrice("task_presend") \o Thrice("task_prerun")
        \o <<"alarm_set", "body_return", "alarm_clear">>
        \o Thrice("task_success") \o Thrice("task_postrun")
        \o <<"apply_return">> \o Thrice("task_postsend")
QueuedOrder ==
    Thrice("task_presend") \o <<"acquire", "build", "send", "release">>
        \o Thrice("task_postsend")

\* C14: an invocation that returned a handle did, in this order: the
\* pre-send broadcast, then (eager) pre-run, body, success, post-run or
\* (queued) channel acquire, one send, channel release, then the post-send
\* broadcast; and in every invocation, ended or not, the whole pre-send
\* broadcast precedes the body and the send, and post-send is broadcast only
\* after the send and the channel release, or after post-run went to all
\* its senders and apply returned.
C14_EventOrder ==
    /\ pc = "returned" =>
          TraceKinds = (IF EagerPath THEN EagerOrder ELSE QueuedOrder)
    /\ \A i \in 1..Len(trace) :
          Kind(trace[i]) # "task_presend" =>
              /\ i > 3
              /\ \A j \in 1..3 : Kind(trace[j]) = "task_presend"
    /\ \A i \in SignalAt("task_postsend") :
          IF EagerPath
          THEN /\ Cardinality({j \in SignalAt("task_postrun") : j < i}) = 3
               /\ \E j \in OpAt("apply_return") : j < i
          ELSE /\ \E j \in OpAt("send") : j < i
               /\ \E j \in OpAt("release") : j < i
               /\ Len(sent) = 1

\* A queued invocation has returned its handle after a complete post-send
\* broadcast.
C14_Witness ==
    /\ pc = "returned"
    /\ ~EagerPath
    /\ Len(SendersOf("task_postsend")) = 3
    /\ "id" \in DOMAIN task_result

\* C15: an execution whose body returned normally ends in success, however
\* the alarm interleaves with it: Timeout was not raised, success was
\* broadcast, failure was not, and no Timeout reaches the caller.
C15_ReturnedBodySucceeds ==
    (OpAt("body_return") # {} /\ ApplyEnded) =>
        /\ OpAt("timeout") = {}
        /\ SignalAt("task_success") # {}
        /\ SignalAt("task_failure") = {}
        /\ exc # Timeout

\* Positions of the trace where a handler raised.
RaisedAt == {i \in 1..Len(trace) : trace[i].op = "signal" /\ trace[i].raised}
\* The broadcast in which a handler raised last.
LastRaised == trace[CHOOSE i \in RaisedAt : \A j \in RaisedAt : j <= i].name
\* A raising handler ends its broadcast: no sender is notified after it.
RaiseEndsBroadcast ==
    \A i \in RaisedAt : \A j \in SignalAt(trace[i].name) : j <= i
\* A raising pre-send handler ends the invocation before anything else.
PresendRaiseEndsCall ==
    HandlerRaisedIn("task_presend") =>
        /\ pc = "raised"
        /\ \A i \in 1..Len(trace) : Kind(trace[i]) = "task_presend"
        /\ sent = <<>>
        /\ desc = None
        /\ task_result = <<>>

\* C16 as stated: when a handler raises, the senders after it are not
\* notified and, once the invocation has ended, it has ended by raising
\* that handler's exception to the caller; after a raising pre-send handler
\* the body is not run, nothing is sent, post-send is not broadcast and no
\* handle is returned.
C16_HandlerExceptionReachesCaller ==
    /\ RaiseEndsBroadcast
    /\ \A i \in RaisedAt :
          /\ pc # "returned"
          /\ pc = "raised" => exc = Exc("HandlerError", trace[i].name)
    /\ PresendRaiseEndsCall

\* C16 amended: when a handler raises, the senders after it are not
\* notified, no handle is returned, and the invocation ends by raising a
\* handler's exception to the caller: the one of the last broadcast in
\* which a handler raised (the exception of a failure or post-run handler
\* replaces the one of an earlier pre-run, success or failure handler);
\* after a raising pre-send handler the body is not run, nothing is sent,
\* post-send is not broadcast and no handle is returned.
C16_LastHandlerExceptionReachesCaller ==
    /\ RaiseEndsBroadcast
    /\ RaisedAt # {} =>
          /\ pc \in {"failure", "postrun", "raised"}
          /\ \A i \in RaisedAt :
                trace[i].name # "task_postsend" => SignalAt("task_postsend") = {}
          /\ pc = "raised" => exc = Exc("HandlerError", LastRaised)
    /\ PresendRaiseEndsCall

\* A pre-run handler raised, then a failure handler raised while being told
\* of it, and the failure handler's exception has reached the caller after
\* the post-run broadcast.
C16_Witness ==
    /\ pc = "raised"
    /\ HandlerRaisedIn("task_prerun")
    /\ HandlerRaisedIn("task_failure")
    /\ exc = Exc("HandlerError", "task_failure")
    /\ Len(SendersOf("task_postrun")) = 3

\* The body raised; the exception it raised.
BodyRaised == OpAt("body_raise") # {}
BodyExc == trace[CHOOSE i \in OpAt("body_raise") : TRUE].extra[1]
\* The exception in flight when the with block of apply is left: the
\* body's, or the Timeout of an alarm that went off before signal.alarm(0).
LeavingExc == IF OpAt("timeout") # {} THEN Timeout ELSE BodyExc

\* C17 as stated: when the body of an eager invocation raised e, failure is
\* broadcast with e, then post-run, then e reaches the caller; post-send is
\* not broadcast and no handle is returned.
C17_BodyExceptionPropagates ==
    (BodyRaised /\ ApplyEnded) =>
        /\ pc = "raised"
        /\ exc = BodyExc
        /\ SignalAt("task_failure") # {}
        /\ \A i \in SignalAt("task_failure") : trace[i].extra = Some(BodyExc)
        /\ SignalAt("task_postrun") # {}
        /\ \A i \in SignalAt("task_failure") : \A j \in SignalAt("task_postrun") :
              i < j
        /\ SignalAt("task_postsend") = {}
        /\ "result" \notin DOMAIN task_result

\* C17 amended: when the body of an eager invocation raised e, post-run is
\* broadcast, post-send is not, no handle is returned and the invocation
\* ends by raising.  With x the exception that leaves the time-limited
\* block (e, or Timeout when the alarm went off before it was cancelled):
\* if x derives from Exception, failure is broadcast with x before post-run,
\* otherwise failure is not broadcast; and x reaches the caller unless a
\* failure or post-run handler raised, whose exception then replaces it.
C17_BodyFailure ==
    (BodyRaised /\ ApplyEnded) =>
        /\ pc = "raised"
        /\ SignalAt("task_postrun") # {}
        /\ SignalAt("task_postsend") = {}
        /\ "result" \notin DOMAIN task_result
        /\ SignalAt("task_success") = {}
        /\ IF LeavingExc.isException
           THEN /\ SignalAt("task_failure") # {}
                /\ \A i \in SignalAt("task_failure") :
                      /\ trace[i].extra = Some(LeavingExc)
                      /\ \A j \in SignalAt("task_postrun") : i < j
           ELSE SignalAt("task_failure") = {}
        /\ exc = (IF RaisedAt # {} THEN Exc("HandlerError", LastRaised)
                  ELSE LeavingExc)

\* The body raised an Exception, no handler raised and no alarm went off:
\* failure and post-run went to all senders and the body's exception has
\* reached the caller.
C17_Witness ==
    /\ pc = "raised"
    /\ BodyRaised
    /\ exc = Exc("BodyError", "body")
    /\ Len(SendersOf("task_failure")) = 3
    /\ Len(SendersOf("task_postrun")) = 3
    /\ \A i \in SignalAt("task_failure") :
          trace[i].extra = Some(Exc("BodyError", "body"))

\* C18: a receive that failed with a socket.error other than a slice
\* timeout or EINTR has ended the wait with that error; a receive
\* interrupted with EINTR has not ended the wait and raised nothing: wait
\* is back at its outcome check or in the next receive, also when more
\* than timeout seconds have passed since its start.
C18_ReceiveErrors ==
    /\ recv = "error" => (w_pc = "raised" /\ w_exc = WExc("socket.error"))
    /\ recv = "eintr" =>
          /\ w_pc \in {"check", "drain"}
          /\ w_exc = NoWExc
          /\ w_value = None

\* A receive was interrupted with EINTR after the deadline had passed, and
\* wait is in its next receive.
C18_Witness ==
    /\ recv = "eintr"
    /\ w_pc = "drain"
    /\ now - start > w_timeout

C20_SuccessFailureExclusive ==
    /\ SignalAt("task_success") = {} \/ SignalAt("task_failure") = {}
    /\ \A i \in SignalAt("task_success") :
          /\ \E j \in OpAt("body_return") : j < i
          /\ \E j \in OpAt("alarm_clear") : j < i
          /\ OpAt("body_raise") = {}
          /\ OpAt("timeout") = {}
          /\ ~alarm
    /\ SignalAt("task_failure") # {} =>
          /\ pc \in {"failure", "postrun", "raised"}
          /\ "result" \notin DOMAIN task_result

\* The body returned, the alarm went off before it was cancelled, failure
\* went to all senders and the execution has ended by raising.
C20_Witness ==
    /\ pc = "raised"
    /\ OpAt("body_return") # {}
    /\ OpAt("timeout") # {}
    /\ Len(SendersOf("task_failure")) = 3
    /\ SignalAt("task_success") = {}

=============================================================================
